---- MODULE Spec2Model ----
(***************************************************************************)
(* zipserve: serving the contents of a ZIP archive over HTTP.              *)
(*                                                                         *)
(* The model follows serve() of cmd/root.go step by step: opening the     *)
(* archive, resolving the directory (marker search), resolving and        *)
(* normalising the prefix, validating the directory, starting the         *)
(* listener goroutine, waiting for a signal or a listener error, the      *)
(* bounded graceful shutdown and the deferred close of the archive.       *)
(*                                                                         *)
(* Strings are sequences of one-character strings.  Paths are sequences   *)
(* of tokens: a token is a file name or the separator "/".                *)
(***************************************************************************)
EXTENDS Integers, Sequences, FiniteSets, TLC

VARIABLES
    \* inputs of one run (command line, archive on disk, environment)
    zipOpenErr,     \* zip.OpenReader(zipfile) fails
    zip,            \* the archive: a set of entries [name, body, fault]
    badDir,         \* a directory whose ReadDir fails during the walk, or NoPath
    argPrefix,      \* --prefix
    argDirectory,   \* --directory
    skipBrowser,    \* --skip-browser
    clientPaths,    \* the URL paths the clients of this run ask for
    \* the controlling path (serve)
    pc,             \* position of the controller in serve
    zState,         \* "none" | "open" | "closed": the archive handle z
    closeCount,     \* number of calls of z.Close()
    directory,      \* local variable directory
    prefix,         \* local variable prefix
    rawPrefix,      \* the prefix before normalisation (history)
    walked,         \* the entries the WalkDir callback was called on (history)
    markerRead,     \* the path z.Open was called on for the marker, or NoPath (history)
    route,          \* the pattern registered with http.Handle, or NoRoute
    notified,       \* signal.Notify(done, SIGINT, SIGTERM) was called
    done,           \* number of signals buffered in channel done (capacity 1)
    serverErr,      \* number of errors buffered in channel serverErr (capacity 1)
    waitCause,      \* what ended the select: "none" | "signal" | "error"
    shutdownState,  \* "none" | "running" | "graceful" | "forced": server.Shutdown
    elapsed,        \* time units elapsed since the shutdown context was created
    exitCode,       \* -1 while the process runs, else its exit status
    \* the listener goroutine and the request handlers
    lst,            \* "none" | "starting" | "serving" | "failed" | "closed"
    sent,           \* number of sends of the listener goroutine on serverErr
    inflight,       \* requests being handled
    served,         \* requests accepted so far
    readAfterClose, \* a handler read from the view after z.Close() (history)
    resp,           \* the answer chosen for the request accepted last, or NoResponse
    \* the environment
    sigCount,       \* signals delivered to the process so far
    sigServing,     \* a signal was delivered while the listener was serving (history)
    browserOpened,  \* browser.OpenURL was called (history)
    printed         \* the "Server running" line was printed (history)

vars == <<zipOpenErr, zip, badDir, argPrefix, argDirectory, skipBrowser,
          clientPaths, pc, zState, closeCount, directory, prefix, rawPrefix, walked,
          markerRead, route, notified, done, serverErr, waitCause,
          shutdownState, elapsed, exitCode, lst, sent, inflight, served,
          readAfterClose, resp, sigCount, sigServing, browserOpened, printed>>

inputVars == <<zipOpenErr, zip, badDir, argPrefix, argDirectory, skipBrowser,
               clientPaths>>

----------------------------------------------------------------------------
(* Bounds of the model *)

MaxPrefixLen == 4
MaxFileLen == 2
MaxDepth == 2
MaxEntries == 2
MaxRequests == 1
MaxSignals == 2

(* Program constants *)

prefixFileName == ".prefix"
shutdownTimeout == 5
defaultDirectory == <<".">>

----------------------------------------------------------------------------
(* Strings *)

Slash == "/"

\* all sequences over S of length at most n
SeqUpTo(S, n) == UNION {[1..k -> S] : k \in 0..n}

HasPrefix(s, c) == Len(s) > 0 /\ s[1] = c
HasSuffix(s, c) == Len(s) > 0 /\ s[Len(s)] = c

\* s[i..j] is a contiguous part of t
IsSubstring(s, t) ==
    \E i \in 0..(Len(t) - Len(s)) : SubSeq(t, i + 1, i + Len(s)) = s

\* number of consecutive c at the start / at the end of s
LeadingRun(s, c) ==
    IF \A i \in 1..Len(s) : s[i] = c THEN Len(s)
    ELSE (CHOOSE i \in 1..Len(s) : s[i] # c /\ \A j \in 1..(i - 1) : s[j] = c) - 1
TrailingRun(s, c) ==
    IF \A i \in 1..Len(s) : s[i] = c THEN Len(s)
    ELSE Len(s) - (CHOOSE i \in 1..Len(s) : s[i] # c /\ \A j \in (i + 1)..Len(s) : s[j] = c)

\* a plausible slip: the trailing slash is appended unconditionally
normalizePrefixAlwaysAppend(p) ==
    LET q == IF ~HasPrefix(p, Slash) THEN <<Slash>> \o p ELSE p
    IN  q \o <<Slash>>

\* a plausible slip: the leading test looks at the wrong end
normalizePrefixTrim(p) ==
    LET q == IF LeadingRun(p, Slash) = Len(p) THEN <<>>
             ELSE SubSeq(p, LeadingRun(p, Slash) + 1, Len(p) - TrailingRun(p, Slash))
    IN  IF q = <<>> THEN <<Slash>> ELSE <<Slash>> \o q \o <<Slash>>

\* normalizePrefix ensures the prefix starts and ends with "/"
normalizePrefix(p) ==
    LET q == IF ~HasPrefix(p, Slash) THEN <<Slash>> \o p ELSE p
    IN  IF ~HasSuffix(q, Slash) THEN q \o <<Slash>> ELSE q

----------------------------------------------------------------------------
(* Paths (package path and io/fs), on sequences of tokens *)

\* the file names of the model, in byte order: "-" < "." < "i" < "s"
indexName == "index.html"
nameOrder == <<"-d", ".prefix", indexName, "site">>
Names == {nameOrder[i] : i \in DOMAIN nameOrder}
Rank(n) == CHOOSE i \in DOMAIN nameOrder : nameOrder[i] = n
Dot == "."
NoPath == <<"?">>

\* the elements of a path that path.Clean keeps
IsElem(t) == t # Slash /\ t # Dot
Elems(s) == SelectSeq(s, IsElem)

\* elements joined by "/"
JoinElems(es) ==
    [i \in 1..(2 * Len(es) - 1) |-> IF i % 2 = 1 THEN es[(i + 1) \div 2] ELSE Slash]

\* path.Clean, for paths without ".." elements
Clean(s) ==
    IF HasPrefix(s, Slash) THEN <<Slash>> \o JoinElems(Elems(s))
    ELSE IF Elems(s) = <<>> THEN <<Dot>>
    ELSE JoinElems(Elems(s))

\* path.Join(dir, name): empty elements are ignored, the result is cleaned
Join(dir, name) ==
    IF dir = <<>> THEN Clean(<<name>>) ELSE Clean(dir \o <<Slash, name>>)

\* index of the last "/" of s, 0 when there is none
LastSlash(s) ==
    IF \A i \in 1..Len(s) : s[i] # Slash THEN 0
    ELSE CHOOSE i \in 1..Len(s) : s[i] = Slash /\ \A j \in (i + 1)..Len(s) : s[j] # Slash

\* path.Dir: all but the last element, cleaned
Dir(p) == Clean(SubSeq(p, 1, LastSlash(p)))

\* DirEntry.Name(): the last element of a valid path
Base(p) == p[Len(p)]

\* fs.ValidPath: "." or elements separated by single slashes, none of them "."
ValidPath(s) ==
    \/ s = <<Dot>>
    \/ /\ Len(s) % 2 = 1
       /\ \A i \in 1..Len(s) : IF i % 2 = 1 THEN IsElem(s[i]) ELSE s[i] = Slash

----------------------------------------------------------------------------
(* The archive as a file system (archive/zip Reader.Open, initFileList) *)

Entry(name, body, fault) == [name |-> name, body |-> body, fault |-> fault]

\* toValidName: the entry's name cleaned as a rooted path, without the root
toValidName(name) == Tail(Clean(<<Slash>> \o name))

isDirEntry(e) == HasSuffix(e.name, Slash)

\* the directories above a valid name, the root excluded
Ancestors(n) == {SubSeq(n, 1, 2 * k - 1) : k \in 1..(((Len(n) + 1) \div 2) - 1)}

filesOf(z) == {toValidName(e.name) : e \in {x \in z : ~isDirEntry(x)}} \ {<<>>}
dirsOf(z) ==
    (UNION {Ancestors(toValidName(e.name)) : e \in z}
        \cup {toValidName(e.name) : e \in {x \in z : isDirEntry(x)}}) \ {<<>>}

\* no name is both a file and a directory, and no two entries share a name
WellFormed(z) ==
    /\ filesOf(z) \cap dirsOf(z) = {}
    /\ \A e1, e2 \in z : toValidName(e1.name) = toValidName(e2.name) => e1 = e2
    /\ \A e \in z : toValidName(e.name) # <<>>

\* the entry of z for a valid name of a file
entryOf(z, n) == CHOOSE e \in z : ~isDirEntry(e) /\ toValidName(e.name) = n

\* Reader.Open / fs.Stat: "invalid" | "notexist" | "dir" | "file"
stat(z, name) ==
    IF ~ValidPath(name) THEN "invalid"
    ELSE IF name = <<Dot>> \/ name \in dirsOf(z) THEN "dir"
    ELSE IF name \in filesOf(z) THEN "file"
    ELSE "notexist"

\* a set of names as a sequence in increasing byte order
RECURSIVE SortNames(_)
SortNames(S) ==
    IF S = {} THEN <<>>
    ELSE LET m == CHOOSE x \in S : \A y \in S : Rank(x) <= Rank(y)
         IN  <<m>> \o SortNames(S \ {m})

\* fs.ReadDir: the names directly inside directory dir, sorted by name
ReadDir(z, dir) ==
    SortNames({Base(n) : n \in {x \in filesOf(z) \cup dirsOf(z) : Dir(x) = dir}})

----------------------------------------------------------------------------
(* fs.WalkDir with the callback of serve *)

\* a plausible slip: the callback returns nil at a match instead of fs.SkipAll
walkDirFnNoSkip(p, w, failed) ==
    IF failed THEN [w EXCEPT !.err = "error"]
    ELSE IF Base(p) = prefixFileName
    THEN [directory |-> Dir(p), visited |-> Append(w.visited, p), err |-> "nil"]
    ELSE [w EXCEPT !.visited = Append(w.visited, p)]

\* a plausible slip: the directory is the matching entry, not its parent
walkDirFnSelf(p, w, failed) ==
    IF failed THEN [w EXCEPT !.err = "error"]
    ELSE IF Base(p) = prefixFileName
    THEN [directory |-> p, visited |-> Append(w.visited, p), err |-> "SkipAll"]
    ELSE [w EXCEPT !.visited = Append(w.visited, p)]

\* the callback: w is what the walk has computed so far, failed says whether the
\* callback is handed an error
walkDirFn(p, w, failed) ==
    IF failed THEN [w EXCEPT !.err = "error"]
    ELSE IF Base(p) = prefixFileName
    THEN [directory |-> Dir(p), visited |-> Append(w.visited, p), err |-> "SkipAll"]
    ELSE [w EXCEPT !.visited = Append(w.visited, p)]

\* io/fs walkDir: the callback on the entry, then on its children in name order;
\* any result of the callback other than nil ends the walk
RECURSIVE walkDir(_, _, _, _), walkEntries(_, _, _, _, _)
walkDir(z, bad, name, w) ==
    LET w1 == walkDirFn(name, w, FALSE)
    IN  IF w1.err # "nil" \/ stat(z, name) # "dir" THEN w1
        ELSE IF name = bad THEN walkDirFn(name, w1, TRUE)
        ELSE walkEntries(z, bad, name, ReadDir(z, name), w1)
walkEntries(z, bad, dir, names, w) ==
    IF names = <<>> THEN w
    ELSE LET w1 == walkDir(z, bad, Join(dir, Head(names)), w)
         IN  IF w1.err # "nil" THEN w1
             ELSE walkEntries(z, bad, dir, Tail(names), w1)

\* findRootDirectory: the walk from the default directory
findRootDirectory(z, bad) ==
    walkDir(z, bad, defaultDirectory,
            [directory |-> defaultDirectory, visited |-> <<>>, err |-> "nil"])

----------------------------------------------------------------------------
(* bufio.Scanner on the marker file, strings.TrimSpace *)

NewLine == "\n"
WhiteSpace == {" ", NewLine}

\* the bytes the reader hands out before it ends or fails
delivered(e) == IF e.fault = "read0" THEN <<>> ELSE e.body

\* bufio.ScanLines on the bytes read: the text before the first line break, or all
\* the bytes when there is none (also when the read ended with an error)
firstLine(data) ==
    IF \A i \in 1..Len(data) : data[i] # NewLine THEN data
    ELSE SubSeq(data, 1,
           (CHOOSE i \in 1..Len(data) :
               data[i] = NewLine /\ \A j \in 1..(i - 1) : data[j] # NewLine) - 1)

RECURSIVE TrimLeft(_), TrimRight(_)
TrimLeft(s) == IF s # <<>> /\ Head(s) \in WhiteSpace THEN TrimLeft(Tail(s)) ELSE s
TrimRight(s) ==
    IF s # <<>> /\ s[Len(s)] \in WhiteSpace THEN TrimRight(SubSeq(s, 1, Len(s) - 1)) ELSE s
TrimSpace(s) == TrimRight(TrimLeft(s))

\* a plausible slip: the marker of the archive root is read, whatever the directory
readPrefixFromRoot(z, dir) ==
    LET p == Join(<<Dot>>, prefixFileName)
    IN  IF stat(z, p) # "file" THEN <<>>
        ELSE IF entryOf(z, p).fault = "open" \/ delivered(entryOf(z, p)) = <<>> THEN <<>>
        ELSE TrimSpace(firstLine(delivered(entryOf(z, p))))

\* readPrefixFromFile: the trimmed first line of dir/.prefix, "" when it cannot be
\* opened or nothing can be scanned
readPrefixFromFile(z, dir) ==
    LET p == Join(dir, prefixFileName)
    IN  IF stat(z, p) # "file" THEN <<>>
        ELSE IF entryOf(z, p).fault = "open" \/ delivered(entryOf(z, p)) = <<>> THEN <<>>
        ELSE TrimSpace(firstLine(delivered(entryOf(z, p))))

----------------------------------------------------------------------------
(* The controlling path: serve *)

NoRoute == <<"?">>
Running == exitCode = -1

\* os.Exit(code), also from log.Fatalf: the process ends at once, deferred calls
\* are not run
Exit(code) == pc' = "exited" /\ exitCode' = code

ctlVars == <<directory, prefix, rawPrefix, walked, markerRead, route, notified,
             done, serverErr, waitCause, shutdownState, elapsed>>
taskVars == <<lst, sent, inflight, served, readAfterClose, resp>>
envVars == <<sigCount, sigServing, browserOpened, printed>>

\* zip.OpenReader and the deferred z.Close()
Open ==
    /\ Running /\ pc = "open"
    /\ IF zipOpenErr
       THEN Exit(1) /\ UNCHANGED zState
       ELSE zState' = "open" /\ pc' = "findDir" /\ UNCHANGED exitCode
    /\ UNCHANGED <<inputVars, closeCount, ctlVars, taskVars, envVars>>

\* if directory is not set, search for a .prefix file
FindRoot ==
    /\ Running /\ pc = "findDir"
    /\ IF directory = <<>>
       THEN LET w == findRootDirectory(zip, badDir)
            IN  /\ walked' = w.visited
                /\ IF w.err = "error"
                   THEN Exit(1) /\ UNCHANGED directory
                   ELSE directory' = w.directory /\ pc' = "readPrefix"
                        /\ UNCHANGED exitCode
       ELSE pc' = "readPrefix" /\ UNCHANGED <<directory, walked, exitCode>>
    /\ UNCHANGED <<inputVars, zState, closeCount, prefix, rawPrefix, markerRead,
                   route, notified, done, serverErr, waitCause, shutdownState,
                   elapsed, taskVars, envVars>>

\* a plausible slip: the marker is read only when the directory is one
ResolvePrefixChecked ==
    /\ Running /\ pc = "readPrefix"
    /\ IF prefix = <<>> /\ stat(zip, directory) = "dir"
       THEN /\ prefix' = readPrefixFromFile(zip, directory)
            /\ markerRead' = Join(directory, prefixFileName)
       ELSE UNCHANGED <<prefix, markerRead>>
    /\ pc' = "normalize"
    /\ UNCHANGED <<inputVars, zState, closeCount, directory, rawPrefix, walked,
                   route, notified, done, serverErr, waitCause, shutdownState,
                   elapsed, exitCode, taskVars, envVars>>

\* if prefix is not set, read it from the .prefix file of the directory
ResolvePrefix ==
    /\ Running /\ pc = "readPrefix"
    /\ IF prefix = <<>>
       THEN /\ prefix' = readPrefixFromFile(zip, directory)
            /\ markerRead' = Join(directory, prefixFileName)
       ELSE UNCHANGED <<prefix, markerRead>>
    /\ pc' = "normalize"
    /\ UNCHANGED <<inputVars, zState, closeCount, directory, rawPrefix, walked,
                   route, notified, done, serverErr, waitCause, shutdownState,
                   elapsed, exitCode, taskVars, envVars>>

\* make sure that the prefix starts with a "/" and also ends with a "/"
NormalizeStep ==
    /\ Running /\ pc = "normalize"
    /\ rawPrefix' = prefix
    /\ prefix' = normalizePrefix(prefix)
    /\ pc' = "validate"
    /\ UNCHANGED <<inputVars, zState, closeCount, directory, walked, markerRead,
                   route, notified, done, serverErr, waitCause, shutdownState,
                   elapsed, exitCode, taskVars, envVars>>

\* a plausible slip: the directory is not checked
ValidateNoCheck ==
    /\ Running /\ pc = "validate"
    /\ pc' = "sub"
    /\ UNCHANGED <<inputVars, zState, closeCount, ctlVars, exitCode, taskVars, envVars>>

\* fs.Stat(z, directory): the directory must exist and be a directory
Validate ==
    /\ Running /\ pc = "validate"
    /\ IF stat(zip, directory) = "dir"
       THEN pc' = "sub" /\ UNCHANGED exitCode
       ELSE Exit(1)
    /\ UNCHANGED <<inputVars, zState, closeCount, ctlVars, taskVars, envVars>>

\* fs.Sub(z, directory) fails on an invalid path only
Sub ==
    /\ Running /\ pc = "sub"
    /\ IF ValidPath(directory)
       THEN pc' = "handle" /\ UNCHANGED exitCode
       ELSE Exit(1)
    /\ UNCHANGED <<inputVars, zState, closeCount, ctlVars, taskVars, envVars>>

\* http.Handle(prefix, ...) and the server value
Handle ==
    /\ Running /\ pc = "handle"
    /\ route' = prefix
    /\ pc' = "go"
    /\ UNCHANGED <<inputVars, zState, closeCount, directory, prefix, rawPrefix,
                   walked, markerRead, notified, done, serverErr, waitCause,
                   shutdownState, elapsed, exitCode, taskVars, envVars>>

\* go func() { server.ListenAndServe() ... }()
Go ==
    /\ Running /\ pc = "go"
    /\ lst' = "starting"
    /\ pc' = "browser"
    /\ UNCHANGED <<inputVars, zState, closeCount, ctlVars, exitCode, sent, inflight,
                   served, readAfterClose, resp, envVars>>

\* browser.OpenURL(url) unless skipBrowser; its failure is logged only
Browser ==
    /\ Running /\ pc = "browser"
    /\ IF skipBrowser THEN UNCHANGED browserOpened
       ELSE \E r \in {"ok", "failed"} : browserOpened' = r
    /\ pc' = "print"
    /\ UNCHANGED <<inputVars, zState, closeCount, ctlVars, exitCode, taskVars,
                   sigCount, sigServing, printed>>

\* fmt.Printf("Server running at %s", url)
PrintURL ==
    /\ Running /\ pc = "print"
    /\ printed' = TRUE
    /\ pc' = "notify"
    /\ UNCHANGED <<inputVars, zState, closeCount, ctlVars, exitCode, taskVars,
                   sigCount, sigServing, browserOpened>>

\* signal.Notify(done, syscall.SIGINT, syscall.SIGTERM)
Notify ==
    /\ Running /\ pc = "notify"
    /\ notified' = TRUE
    /\ pc' = "select"
    /\ UNCHANGED <<inputVars, zState, closeCount, directory, prefix, rawPrefix,
                   walked, markerRead, route, done, serverErr, waitCause,
                   shutdownState, elapsed, exitCode, taskVars, envVars>>

\* a plausible slip: a default case lets the select fall through to the shutdown
SelectDefault ==
    /\ Running /\ pc = "select"
    /\ \/ /\ done > 0
          /\ done' = done - 1 /\ waitCause' = "signal" /\ pc' = "shutdown"
          /\ UNCHANGED serverErr
       \/ /\ serverErr > 0
          /\ serverErr' = serverErr - 1 /\ waitCause' = "error" /\ pc' = "fatalErr"
          /\ UNCHANGED done
       \/ /\ done = 0 /\ serverErr = 0
          /\ pc' = "shutdown"
          /\ UNCHANGED <<done, serverErr, waitCause>>
    /\ UNCHANGED <<inputVars, zState, closeCount, directory, prefix, rawPrefix,
                   walked, markerRead, route, notified, shutdownState, elapsed,
                   exitCode, taskVars, envVars>>

\* select { case <-done: ... case err := <-serverErr: ... }: any ready case is
\* taken; with none ready the controller parks until a send wakes it
Select ==
    /\ Running /\ pc = "select"
    /\ \/ /\ done > 0
          /\ done' = done - 1 /\ waitCause' = "signal" /\ pc' = "shutdown"
          /\ UNCHANGED serverErr
       \/ /\ serverErr > 0
          /\ serverErr' = serverErr - 1 /\ waitCause' = "error" /\ pc' = "fatalErr"
          /\ UNCHANGED done
       \/ /\ done = 0 /\ serverErr = 0
          /\ pc' = "parked"
          /\ UNCHANGED <<done, serverErr, waitCause>>
    /\ UNCHANGED <<inputVars, zState, closeCount, directory, prefix, rawPrefix,
                   walked, markerRead, route, notified, shutdownState, elapsed,
                   exitCode, taskVars, envVars>>

\* log.Fatalf("Server error: %v", err)
FatalServerErr ==
    /\ Running /\ pc = "fatalErr"
    /\ Exit(1)
    /\ UNCHANGED <<inputVars, zState, closeCount, ctlVars, taskVars, envVars>>

\* context.WithTimeout(..., shutdownTimeout); server.Shutdown(ctx) begins: the
\* listener is closed, no new request is accepted
Shutdown ==
    /\ Running /\ pc = "shutdown"
    /\ shutdownState' = "running"
    /\ elapsed' = 0
    /\ pc' = "shutdownWait"
    /\ UNCHANGED <<inputVars, zState, closeCount, directory, prefix, rawPrefix,
                   walked, markerRead, route, notified, done, serverErr, waitCause,
                   exitCode, taskVars, envVars>>

\* time passes while Shutdown waits for the requests in flight
Tick ==
    /\ Running /\ pc = "shutdownWait"
    /\ elapsed < shutdownTimeout
    /\ elapsed' = elapsed + 1
    /\ UNCHANGED <<inputVars, pc, zState, closeCount, directory, prefix, rawPrefix,
                   walked, markerRead, route, notified, done, serverErr, waitCause,
                   shutdownState, exitCode, taskVars, envVars>>

\* server.Shutdown returns: nil once no request is in flight, the context's error
\* once the timeout has expired (the requests in flight keep running)
ShutdownReturn ==
    /\ Running /\ pc = "shutdownWait"
    /\ \/ inflight = 0 /\ shutdownState' = "graceful"
       \/ elapsed = shutdownTimeout /\ shutdownState' = "forced"
    /\ pc' = "deferred"
    /\ UNCHANGED <<inputVars, zState, closeCount, directory, prefix, rawPrefix,
                   walked, markerRead, route, notified, done, serverErr, waitCause,
                   elapsed, exitCode, taskVars, envVars>>

\* serve returns: the deferred function closes the archive
DeferredClose ==
    /\ Running /\ pc = "deferred"
    /\ zState' = "closed"
    /\ closeCount' = closeCount + 1
    /\ pc' = "returned"
    /\ UNCHANGED <<inputVars, ctlVars, exitCode, taskVars, envVars>>

\* Run, Execute and main return: the process ends with status 0
ProcessExit ==
    /\ Running /\ pc = "returned"
    /\ Exit(0)
    /\ UNCHANGED <<inputVars, zState, closeCount, ctlVars, taskVars, envVars>>

----------------------------------------------------------------------------
(* The route: http.Handle(prefix, http.StripPrefix(prefix, http.FileServer(...))) *)

StartsWith(s, t) == Len(t) <= Len(s) /\ SubSeq(s, 1, Len(t)) = t
EndsWith(s, t) == Len(t) <= Len(s) /\ SubSeq(s, Len(s) - Len(t) + 1, Len(s)) = t

Response(kind, from) == [kind |-> kind, from |-> from]
NoResponse == [path |-> NoPath, kind |-> "none", from |-> NoPath]
notFound == Response("notFound", NoPath)

\* net/http cleanPath, for paths without "." and ".." elements: the path is
\* rooted, repeated slashes are collapsed, a trailing slash is kept
cleanPath(p) ==
    LET q == IF p = <<>> \/ p[1] # Slash THEN <<Slash>> \o p ELSE p
        F[i \in 0..Len(q)] ==
            IF i = 0 THEN <<>>
            ELSE IF q[i] = Slash /\ i > 1 /\ q[i - 1] = Slash THEN F[i - 1]
            ELSE Append(F[i - 1], q[i])
    IN  F[Len(q)]

\* http.FS(fsys).Open(path.Clean(upath)): the name asked of the view
fsName(upath) ==
    LET c == cleanPath(upath)
        t == IF Len(c) > 1 /\ c[Len(c)] = Slash THEN SubSeq(c, 1, Len(c) - 1) ELSE c
    IN  IF t = <<Slash>> THEN <<Dot>> ELSE Tail(t)

\* fs.Sub(z, dir): the name in the archive of the name n of the view
fullName(dir, n) ==
    IF dir = <<Dot>> THEN n
    ELSE IF n = <<Dot>> THEN dir
    ELSE dir \o <<Slash>> \o n

\* http.FileServer on the view: a path ending in /index.html is redirected to its
\* directory, a directory is answered with its index.html or with a listing, and
\* a path with the wrong kind of ending is redirected to the right one
fileServer(z, dir, p) ==
    LET upath == IF HasPrefix(p, Slash) THEN p ELSE <<Slash>> \o p
        name == fullName(dir, fsName(upath))
        index == fullName(dir, fsName(upath \o <<Slash, indexName>>))
        kind == stat(z, name)
    IN  IF EndsWith(upath, <<Slash, indexName>>) THEN Response("redirect", <<Dot, Slash>>)
        ELSE IF kind \notin {"dir", "file"} THEN notFound
        ELSE IF kind = "dir" /\ ~HasSuffix(upath, Slash)
        THEN Response("redirect", <<upath[Len(upath)], Slash>>)
        ELSE IF kind = "file" /\ HasSuffix(upath, Slash)
        THEN Response("redirect", <<Dot, Dot, Slash, upath[Len(upath) - 1]>>)
        ELSE IF kind = "dir"
        THEN IF stat(z, index) = "file" THEN Response("file", index)
             ELSE Response("listing", name)
        ELSE Response("file", name)

\* a plausible slip: the handler is mounted without http.StripPrefix
stripPrefixKeep(pre, p) == p

\* http.StripPrefix: the path without the prefix, NoPath when it does not start
\* with the prefix
stripPrefix(pre, p) ==
    IF pre # <<>> /\ StartsWith(p, pre) THEN SubSeq(p, Len(pre) + 1, Len(p))
    ELSE NoPath

\* http.DefaultServeMux with the one pattern registered by serve: an unclean
\* path is redirected to the clean one, a path under the pattern goes to the
\* handler, the pattern without its last slash is redirected to the pattern
serveMux(z, dir, pattern, p) ==
    IF cleanPath(p) # p THEN Response("redirect", cleanPath(p))
    ELSE IF StartsWith(p, pattern)
    THEN IF stripPrefix(pattern, p) = NoPath THEN notFound
         ELSE fileServer(z, dir, stripPrefix(pattern, p))
    ELSE IF p \o <<Slash>> = pattern THEN Response("redirect", pattern)
    ELSE notFound

----------------------------------------------------------------------------
(* The listener goroutine and the request handlers *)

\* server.ListenAndServe() binds the port and starts to accept
ListenBind ==
    /\ Running /\ lst = "starting" /\ shutdownState = "none"
    /\ lst' = "serving"
    /\ UNCHANGED <<inputVars, pc, zState, closeCount, ctlVars, exitCode, sent,
                   inflight, served, readAfterClose, resp, envVars>>

\* ListenAndServe returns an error other than http.ErrServerClosed (the port
\* cannot be bound, or accepting fails later): serverErr <- err.  The channel has
\* room for the one error; a controller parked in the select receives it directly.
\* A bind can still fail when Shutdown was called after ListenAndServe began;
\* once the server accepts, an error after Shutdown is http.ErrServerClosed
ListenFail ==
    /\ Running
    /\ lst = "starting" \/ (lst = "serving" /\ shutdownState = "none")
    /\ lst' = "failed"
    /\ sent' = sent + 1
    /\ IF pc = "parked"
       THEN pc' = "fatalErr" /\ waitCause' = "error" /\ UNCHANGED serverErr
       ELSE serverErr' = serverErr + 1 /\ UNCHANGED <<pc, waitCause>>
    /\ UNCHANGED <<inputVars, zState, closeCount, directory, prefix, rawPrefix,
                   walked, markerRead, route, notified, done, shutdownState,
                   elapsed, exitCode, inflight, served, readAfterClose, resp, envVars>>

\* a plausible slip: the goroutine sends http.ErrServerClosed as well
ListenClosedSends ==
    /\ Running /\ lst \in {"starting", "serving"} /\ shutdownState # "none"
    /\ lst' = "closed"
    /\ sent' = sent + 1
    /\ serverErr' = serverErr + 1
    /\ UNCHANGED <<inputVars, pc, zState, closeCount, directory, prefix, rawPrefix,
                   walked, markerRead, route, notified, done, waitCause,
                   shutdownState, elapsed, exitCode, inflight, served,
                   readAfterClose, resp, envVars>>

\* after Shutdown began, ListenAndServe returns http.ErrServerClosed: nothing is sent
ListenClosed ==
    /\ Running /\ lst \in {"starting", "serving"} /\ shutdownState # "none"
    /\ lst' = "closed"
    /\ UNCHANGED <<inputVars, pc, zState, closeCount, ctlVars, exitCode, sent,
                   inflight, served, readAfterClose, resp, envVars>>

\* a request is accepted: one handler goroutine per request; the multiplexer
\* of the one route and the handler registered for it choose the answer
RequestArrive ==
    /\ Running /\ lst = "serving" /\ shutdownState = "none"
    /\ served < MaxRequests
    /\ served' = served + 1
    /\ inflight' = inflight + 1
    /\ \E p \in clientPaths :
          resp' = [path |-> p] @@ serveMux(zip, directory, route, p)
    /\ UNCHANGED <<inputVars, pc, zState, closeCount, ctlVars, exitCode, lst, sent,
                   readAfterClose, envVars>>

\* a handler copies content from the file system view of the archive
RequestRead ==
    /\ Running /\ inflight > 0
    /\ resp.kind \in {"file", "listing"}
    /\ readAfterClose' = (readAfterClose \/ zState = "closed")
    /\ UNCHANGED <<inputVars, pc, zState, closeCount, ctlVars, exitCode, lst, sent,
                   inflight, served, resp, envVars>>

\* a handler has written its response
RequestDone ==
    /\ Running /\ inflight > 0
    /\ inflight' = inflight - 1
    /\ UNCHANGED <<inputVars, pc, zState, closeCount, ctlVars, exitCode, lst, sent,
                   served, readAfterClose, resp, envVars>>

----------------------------------------------------------------------------
(* The environment *)

\* SIGINT or SIGTERM is delivered.  Before signal.Notify the Go runtime ends the
\* process (status 2 stands for the death by signal); after it the signal is sent
\* to done without blocking: handed to a parked controller, buffered when there is
\* room, dropped otherwise
Signal ==
    /\ Running /\ sigCount < MaxSignals
    /\ sigCount' = sigCount + 1
    /\ sigServing' = (sigServing \/ lst = "serving")
    /\ IF ~notified
       THEN Exit(2) /\ UNCHANGED <<done, waitCause>>
       ELSE IF pc = "parked"
       THEN pc' = "shutdown" /\ waitCause' = "signal" /\ UNCHANGED <<done, exitCode>>
       ELSE /\ done' = (IF done = 0 THEN 1 ELSE done)
            /\ UNCHANGED <<pc, waitCause, exitCode>>
    /\ UNCHANGED <<inputVars, zState, closeCount, directory, prefix, rawPrefix,
                   walked, markerRead, route, notified, serverErr, shutdownState,
                   elapsed, taskVars, browserOpened, printed>>

----------------------------------------------------------------------------
(* Inputs *)

PrefixChars == {Slash, "x", "y"}
FileChars == {Slash, "x", " ", NewLine}
Faults == {"none", "open", "read0", "readEnd"}

\* the sets of at most n elements of S
SetsUpTo(S, n) == {{}} \cup UNION {{{f[i] : i \in 1..k} : f \in [1..k -> S]} : k \in 1..n}

\* the valid paths of at most MaxDepth elements
WalkNames == Names \ {indexName}
CandPaths == {JoinElems(es) : es \in (SeqUpTo(WalkNames, MaxDepth) \ {<<>>})}

\* archives of at most MaxEntries empty files
WalkArchives ==
    {z \in SetsUpTo({Entry(p, <<>>, "none") : p \in CandPaths}, MaxEntries) : WellFormed(z)}

\* archives with a marker at the root or in site, and possibly the other one too
PrefixArchives ==
    {{Entry(m, b, f)} \cup o :
        m \in {<<prefixFileName>>, <<"site", Slash, prefixFileName>>},
        b \in SeqUpTo(FileChars, MaxFileLen),
        f \in Faults,
        o \in {{}, {Entry(<<"-d", Slash, prefixFileName>>, <<Slash>>, "none")}}}

\* a few archives for the runs of the whole program
SampleArchives ==
    { {Entry(<<"site", Slash, prefixFileName>>, <<"x", NewLine>>, "none"),
       Entry(<<"site", Slash, "-d">>, <<>>, "none")},
      {Entry(<<"site">>, <<>>, "none")},
      {Entry(<<Slash, "site", Slash, prefixFileName>>, <<Slash, "x">>, "readEnd"),
       Entry(<<prefixFileName, Slash>>, <<>>, "none")} }

\* the archives of the worked examples: the only marker is site/.prefix (stored
\* with or without a leading slash) and holds the line demo; or there is no marker
DemoLine == <<"d", "e", "m", "o">>
ExampleArchives ==
    { {Entry(<<Slash, "site", Slash, prefixFileName>>, DemoLine \o <<NewLine>>, "none")},
      {Entry(<<"site", Slash, prefixFileName>>, DemoLine, "none"),
       Entry(<<"site", Slash, "-d">>, <<>>, "none")},
      {Entry(<<"site", Slash, "-d">>, <<>>, "none")},
      {} }

\* the state of the process when serve is entered
InitState ==
    /\ pc = "open" /\ zState = "none" /\ closeCount = 0
    /\ directory = argDirectory /\ prefix = argPrefix
    /\ rawPrefix = <<>> /\ walked = <<>> /\ markerRead = NoPath /\ route = NoRoute
    /\ notified = FALSE /\ done = 0 /\ serverErr = 0 /\ waitCause = "none"
    /\ shutdownState = "none" /\ elapsed = 0 /\ exitCode = -1
    /\ lst = "none" /\ sent = 0 /\ inflight = 0 /\ served = 0
    /\ readAfterClose = FALSE /\ resp = NoResponse
    /\ sigCount = 0 /\ sigServing = FALSE /\ browserOpened = "no" /\ printed = FALSE

----------------------------------------------------------------------------
(* The whole program *)

Init ==
    /\ zipOpenErr \in BOOLEAN
    /\ zip \in SampleArchives
    /\ badDir \in {NoPath, <<"site">>}
    /\ argPrefix \in {<<>>, <<"x">>}
    /\ argDirectory \in {<<>>, <<"site">>, <<"site", Slash>>, <<"-d">>}
    /\ skipBrowser \in BOOLEAN
    /\ clientPaths = {<<Slash, "x", Slash, "-d">>}
    /\ InitState

Next ==
    \/ Open \/ FindRoot \/ ResolvePrefix \/ NormalizeStep \/ Validate \/ Sub
    \/ Handle \/ Go \/ Browser \/ PrintURL \/ Notify \/ Select \/ FatalServerErr
    \/ Shutdown \/ Tick \/ ShutdownReturn \/ DeferredClose \/ ProcessExit
    \/ ListenBind \/ ListenFail \/ ListenClosed
    \/ RequestArrive \/ RequestRead \/ RequestDone
    \/ Signal

Spec == Init /\ [][Next]_vars

(* The resolution of directory and prefix alone, on many archives *)

InitResolve ==
    /\ zipOpenErr = FALSE
    /\ \/ /\ zip \in WalkArchives
          /\ badDir \in {NoPath} \cup dirsOf(zip)
          /\ argPrefix = <<>>
          /\ argDirectory = <<>>
       \/ /\ zip \in PrefixArchives
          /\ badDir = NoPath
          /\ argPrefix \in {<<>>, <<"y">>}
          /\ argDirectory \in {<<>>, <<"site">>, <<"site", Slash>>, <<Dot>>}
       \/ /\ zip \in ExampleArchives
          /\ badDir = NoPath
          /\ argPrefix = <<>>
          /\ argDirectory = <<>>
    /\ skipBrowser = TRUE
    /\ clientPaths = {}
    /\ InitState

NextResolve == Open \/ FindRoot \/ ResolvePrefix \/ NormalizeStep \/ Validate

SpecResolve == InitResolve /\ [][NextResolve]_vars

(* The route alone: resolution, the listener and requests, without signals *)

\* a site below site/ with the marker line demo; a site at the root without marker
ServeArchives ==
    { {Entry(<<"site", Slash, prefixFileName>>, DemoLine \o <<NewLine>>, "none"),
       Entry(<<"site", Slash, indexName>>, <<"x">>, "none"),
       Entry(<<"site", Slash, "-d">>, <<"x">>, "none")},
      {Entry(<<indexName>>, <<"x">>, "none"),
       Entry(<<"site", Slash, "-d">>, <<"x">>, "none")} }

\* URL paths below each prefix of these runs, beside them, and unclean ones
ReqPaths ==
    {r \o t : r \in {<<Slash>>, <<Slash>> \o DemoLine \o <<Slash>>,
                      <<Slash, Slash, "x", Slash>>},
              t \in {<<>>, <<indexName>>, <<"-d">>, <<"-d", Slash>>, <<"site">>,
                      <<"site", Slash>>, <<"site", Slash, indexName>>, <<"y">>}}
        \cup {<<Slash>> \o DemoLine, <<Slash, "o", "t", "h", "e", "r", Slash>>}

InitServe ==
    /\ zipOpenErr = FALSE
    /\ zip \in ServeArchives
    /\ badDir = NoPath
    /\ argPrefix \in {<<>>, <<Slash, Slash, "x">>}
    /\ argDirectory \in {<<>>, <<"site">>}
    /\ skipBrowser = TRUE
    /\ clientPaths = ReqPaths
    /\ InitState

NextServe ==
    \/ Open \/ FindRoot \/ ResolvePrefix \/ NormalizeStep \/ Validate \/ Sub
    \/ Handle \/ Go \/ ListenBind \/ RequestArrive \/ RequestRead \/ RequestDone

SpecServe == InitServe /\ [][NextServe]_vars

(* normalizePrefix alone, on every short string *)

InitNormalize ==
    /\ zipOpenErr = FALSE /\ zip = {} /\ badDir = NoPath
    /\ argPrefix \in SeqUpTo(PrefixChars, MaxPrefixLen)
    /\ argDirectory = <<Dot>>
    /\ skipBrowser = TRUE
    /\ clientPaths = {}
    /\ InitState

NextNormalize == Open \/ FindRoot \/ ResolvePrefix \/ NormalizeStep

SpecNormalize == InitNormalize /\ [][NextNormalize]_vars

----------------------------------------------------------------------------
(* Properties of normalizePrefix, under SpecNormalize *)

Normalized == pc = "validate"

\* C6 as stated: for every raw prefix the resolved prefix starts with exactly one
\* "/" and ends with exactly one "/".
C6_ExactlyOneSlash ==
    Normalized => LeadingRun(prefix, Slash) = 1 /\ TrailingRun(prefix, Slash) = 1

Max(a, b) == IF a >= b THEN a ELSE b

\* C6 amended: the resolved prefix starts and ends with "/"; the slashes at the
\* two ends of the raw prefix are kept as they are, so the resolved prefix starts
\* (ends) with exactly one "/" when the raw prefix starts (ends) with at most
\* one, and with as many as the raw prefix otherwise.
C6_BoundarySlashes ==
    Normalized =>
        /\ HasPrefix(prefix, Slash) /\ HasSuffix(prefix, Slash)
        /\ LeadingRun(prefix, Slash) = Max(1, LeadingRun(rawPrefix, Slash))
        /\ TrailingRun(prefix, Slash) = Max(1, TrailingRun(rawPrefix, Slash))

\* a raw prefix with two leading slashes has been normalised
C6_Witness ==
    Normalized /\ rawPrefix = <<Slash, Slash, "x">> /\ prefix = <<Slash, Slash, "x", Slash>>

\* C7: normalisation is idempotent: normalising the resolved prefix again changes
\* nothing.
C7_Idempotent == Normalized => normalizePrefix(prefix) = prefix

\* a raw prefix without slashes has been normalised
C7_Witness == Normalized /\ rawPrefix = <<"x">> /\ prefix = <<Slash, "x", Slash>>

\* C8: "/" is prepended only when the raw prefix lacks a leading slash and
\* appended only when the result lacks a trailing slash, nothing else changes:
\* "" gives "/", "x" gives "/x/", "/x/" gives "/x/", and the raw prefix is a
\* contiguous part of the resolved prefix.
C8_PrependAppendOnly ==
    Normalized =>
        LET pre == IF HasPrefix(rawPrefix, Slash) THEN <<>> ELSE <<Slash>>
            post == IF HasSuffix(pre \o rawPrefix, Slash) THEN <<>> ELSE <<Slash>>
        IN  /\ prefix = pre \o rawPrefix \o post
            /\ IsSubstring(rawPrefix, prefix)
            /\ (rawPrefix = <<>> => prefix = <<Slash>>)
            /\ (rawPrefix = <<"x">> => prefix = <<Slash, "x", Slash>>)
            /\ (rawPrefix = <<Slash, "x", Slash>> => prefix = <<Slash, "x", Slash>>)

\* a raw prefix with an interior slash has been normalised
C8_Witness ==
    Normalized /\ rawPrefix = <<"x", Slash, "y">>
               /\ prefix = <<Slash, "x", Slash, "y", Slash>>

----------------------------------------------------------------------------
(* Properties of the resolution, under SpecResolve *)

\* the entries named .prefix, files and directories
Markers(z) == {n \in filesOf(z) \cup dirsOf(z) : Base(n) = prefixFileName}

\* the directory a valid path lies in
ParentOf(n) == IF Len(n) = 1 THEN <<Dot>> ELSE SubSeq(n, 1, Len(n) - 2)

\* a comes before b when the tree is walked depth first with the names of every
\* directory in increasing byte order: a is above b, or at the first element
\* where they differ a has the smaller name
PathBefore(a, b) ==
    LET ea == Elems(a)
        eb == Elems(b)
    IN  \E k \in 1..Len(eb) :
            /\ \A i \in 1..(k - 1) : i <= Len(ea) /\ ea[i] = eb[i]
            /\ \/ Len(ea) = k - 1
               \/ Len(ea) >= k /\ Rank(ea[k]) < Rank(eb[k])

\* the marker search has run and did not fail
WalkDone == argDirectory = <<>> /\ pc \in {"readPrefix", "normalize", "validate", "sub"}

\* C9: with no explicit directory the resolved directory is the parent of the
\* first entry named .prefix in the walk order, whatever other markers the
\* archive holds; the walk ends at that entry; without any marker the resolved
\* directory is ".".
C9_FirstMarkerWins ==
    WalkDone =>
        IF Markers(zip) = {}
        THEN /\ directory = <<Dot>>
             /\ \A i \in 1..Len(walked) : Base(walked[i]) # prefixFileName
        ELSE \E m \in Markers(zip) :
                /\ \A o \in Markers(zip) \ {m} : PathBefore(m, o)
                /\ directory = ParentOf(m)
                /\ Len(walked) > 0 /\ walked[Len(walked)] = m
                /\ \A i \in 1..(Len(walked) - 1) :
                       Base(walked[i]) # prefixFileName /\ PathBefore(walked[i], m)

\* the archive holds a marker at its root and one in -d: the one in -d won
C9_Witness ==
    /\ WalkDone
    /\ {<<prefixFileName>>, <<"-d", Slash, prefixFileName>>} \subseteq Markers(zip)
    /\ directory = <<"-d">>

PrefixResolved == pc \in {"validate", "sub"}

\* C10 as stated: an explicit prefix is used as given and the marker is not
\* opened; otherwise the raw prefix is the trimmed first line of the .prefix file
\* directly inside the resolved directory, and it is empty when that file is
\* absent, empty or unreadable (any open or read error); the resolved prefix
\* is the normalisation of the raw prefix.
C10_RawPrefixChoice ==
    PrefixResolved =>
        LET m == Join(directory, prefixFileName)
        IN  /\ prefix = normalizePrefix(rawPrefix)
            /\ IF argPrefix # <<>>
               THEN rawPrefix = argPrefix /\ markerRead = NoPath
               ELSE /\ markerRead = m
                    /\ rawPrefix =
                         IF stat(zip, m) # "file" THEN <<>>
                         ELSE IF entryOf(zip, m).fault # "none" THEN <<>>
                         ELSE TrimSpace(firstLine(entryOf(zip, m).body))

----------------------------------------------------------------------------
(* Properties of the whole run, under Spec *)

Exited == pc = "exited"
ShutdownOver == shutdownState \in {"graceful", "forced"}

\* C1 as stated: on every exit path of serve after the archive was opened
\* (return after the shutdown, or a fatal error) the archive handle has been
\* closed exactly once when the process ends.
C1_ReleasedExactlyOnce ==
    (Exited /\ exitCode \in {0, 1} /\ zState # "none") =>
        (zState = "closed" /\ closeCount = 1)

\* C2 as stated: the archive is closed only after the shutdown has returned, and
\* no request handler reads from the view after the archive was closed, also
\* when the shutdown was forced by the timeout.
C2_NoReadAfterClose ==
    /\ zState = "closed" => ShutdownOver
    /\ ~readAfterClose

WalkFails == argDirectory = <<>> /\ findRootDirectory(zip, badDir).err = "error"

\* C3: a listener (and a route) exists only after the archive was opened, the
\* marker search did not fail and the resolved directory was found to be a
\* directory of the archive; a run with an archive that cannot be opened, a
\* failing search or a resolved directory that is no directory ends with a
\* non-zero status and without a listener.
C3_ListenerAfterValidation ==
    /\ (lst # "none" \/ route # NoRoute
            \/ pc \notin {"open", "findDir", "readPrefix", "normalize", "validate", "exited"})
         => (~zipOpenErr /\ ~WalkFails /\ stat(zip, directory) = "dir")
    /\ (Exited /\ (zipOpenErr \/ WalkFails
                    \/ (directory # <<>> /\ stat(zip, directory) # "dir")))
         => (exitCode # 0 /\ lst = "none" /\ route = NoRoute)

\* the explicit directory is not in the archive: the run ended at the validation,
\* after the prefix was normalised, without a listener
C3_Witness ==
    /\ Exited /\ exitCode = 1
    /\ argDirectory # <<>> /\ stat(zip, directory) # "dir"
    /\ HasPrefix(prefix, Slash)
    /\ lst = "none"

\* C4 as stated: a signal delivered while the listener is serving leads to the
\* end of the run through the graceful shutdown (which returned, in time or
\* forced), the close of the archive and exit status 0.
C4_InterruptStopsGracefully ==
    (Exited /\ sigServing) => (exitCode = 0 /\ ShutdownOver /\ closeCount = 1)

\* C5 as stated: when the controller has received a listener error, the run ends
\* with a non-zero status after the graceful shutdown step and the release of
\* the archive.
C5_ListenerErrorShutsDown ==
    (Exited /\ waitCause = "error") =>
        (exitCode # 0 /\ shutdownState # "none" /\ closeCount = 1)

----------------------------------------------------------------------------
(* Properties of the resolution from end to end, under SpecResolve *)

AutoResolved == PrefixResolved /\ argDirectory = <<>> /\ argPrefix = <<>>

\* the only marker of the archive is site/.prefix and its first line is demo
OnlySiteMarkerDemo ==
    /\ Markers(zip) = {<<"site", Slash, prefixFileName>>}
    /\ stat(zip, <<"site", Slash, prefixFileName>>) = "file"
    /\ firstLine(entryOf(zip, <<"site", Slash, prefixFileName>>).body) = DemoLine
    /\ entryOf(zip, <<"site", Slash, prefixFileName>>).fault = "none"

DemoPrefix == <<Slash>> \o DemoLine \o <<Slash>>

\* C11 as stated: without explicit directory and prefix, the archive whose only
\* marker is /site/.prefix with the line demo resolves to directory "/site" and
\* prefix "/demo/"; an archive without marker resolves to "." and "/"; the
\* marker opened for the prefix is the one the walk stopped at.
C11_AutoResolution ==
    AutoResolved =>
        /\ OnlySiteMarkerDemo => (directory = <<Slash, "site">> /\ prefix = DemoPrefix)
        /\ Markers(zip) = {} => (directory = <<Dot>> /\ prefix = <<Slash>>)
        /\ Markers(zip) # {} =>
              (markerRead = walked[Len(walked)] /\ directory = ParentOf(markerRead))

\* C11 amended: as stated, but the resolved directory of the first archive is
\* "site", the path of the directory inside the archive without a leading slash.
C11_AutoResolutionUnrooted ==
    AutoResolved =>
        /\ OnlySiteMarkerDemo => (directory = <<"site">> /\ prefix = DemoPrefix)
        /\ Markers(zip) = {} => (directory = <<Dot>> /\ prefix = <<Slash>>)
        /\ Markers(zip) # {} =>
              (markerRead = walked[Len(walked)] /\ directory = ParentOf(markerRead))

\* the archive stores /site/.prefix with the line demo: resolved to site and /demo/
C11_Witness ==
    /\ AutoResolved /\ pc = "sub"
    /\ OnlySiteMarkerDemo
    /\ \E e \in zip : e.name = <<Slash, "site", Slash, prefixFileName>>
    /\ directory = <<"site">> /\ prefix = DemoPrefix

----------------------------------------------------------------------------
(* Properties of the route, under SpecServe *)

\* the part of the request path after the registered pattern
Rest == SubSeq(resp.path, Len(route) + 1, Len(resp.path))
ViewName == fullName(directory, fsName(Rest))
Answer == Response(resp.kind, resp.from)

\* the plain lookup of a name in the archive: a file gives its content, a
\* directory its index document or a listing, anything else not-found
viewLookup(z, n) ==
    LET index == IF n = <<Dot>> THEN <<indexName>> ELSE n \o <<Slash, indexName>>
    IN  IF stat(z, n) = "file" THEN Response("file", n)
        ELSE IF stat(z, n) = "dir"
        THEN IF stat(z, index) = "file" THEN Response("file", index)
             ELSE Response("listing", n)
        ELSE notFound

\* the archive name n lies in the directory dir or below it
IsUnder(dir, n) == dir = <<Dot>> \/ n = dir \/ StartsWith(n, dir \o <<Slash>>)

----------------------------------------------------------------------------
(* Properties of the run to the blocking wait and of the wait, under Spec *)

\* the controller is past the normalisation of the prefix
AfterNormalize == pc \notin {"open", "findDir", "readPrefix", "normalize", "exited"}

\* the controller is at the select, about to evaluate it or parked in it
Waiting == pc \in {"select", "parked"}

\* the marker the controller opened is missing, is no file, or its read fails
MarkerUnreadable ==
    /\ markerRead # NoPath
    /\ \/ stat(zip, markerRead) # "file"
       \/ entryOf(zip, markerRead).fault # "none"

\* the fatal conditions of serve: the archive, the walk, the directory, the listener
FatalCondition ==
    \/ zipOpenErr
    \/ WalkFails
    \/ stat(zip, directory) # "dir"
    \/ waitCause = "error"

\* C13 as stated: a browser failure, an absent marker and a read error on the
\* marker never end the run: a run ends with a failure status only for a fatal
\* condition, the step after the browser is the report of the URL, the
\* controller waits with the listener started, and the prefix is the default
\* "/" when the marker could not be read.
C13_NonFatalNeverAbort ==
    /\ (Exited /\ exitCode = 1) => FatalCondition
    /\ browserOpened = "failed" => (printed \/ pc = "print" \/ sigCount > 0)
    /\ Waiting => (lst # "none" /\ route = prefix)
    /\ (AfterNormalize /\ argPrefix = <<>> /\ MarkerUnreadable) =>
          (rawPrefix = <<>> /\ prefix = <<Slash>>)

\* C14 as stated: the URL is reported and the browser is triggered only after
\* the listener has bound; neither step is taken while the listener has not yet
\* bound or has failed to bind.
C14_ReportOnlyWhenBound ==
    [][((printed' /\ ~printed) \/ browserOpened' # browserOpened) => lst = "serving"]_vars

\* C15: the listener sends on serverErr at most once in a run, and there is
\* room in the channel whenever it may send, so the send never blocks; a
\* listener that ended because of the shutdown has sent nothing; once the
\* controller left the wait for a signal it never receives a listener error.
C15_ListenerSendsOnce ==
    /\ [](/\ sent <= 1 /\ serverErr <= sent
          /\ lst \in {"starting", "serving"} => (sent = 0 /\ serverErr = 0)
          /\ lst = "closed" => sent = 0
          /\ shutdownState # "none" => waitCause = "signal")
    /\ [][waitCause = "signal" => waitCause' = "signal"]_vars

\* the run was interrupted, the listener ended with the shutdown and sent nothing
C15_Witness ==
    /\ Exited /\ exitCode = 0 /\ waitCause = "signal"
    /\ lst = "closed" /\ sent = 0 /\ serverErr = 0

\* what each step of the resolution finds done and leaves undone
OrderedSteps ==
    /\ directory' # directory =>
          (markerRead = NoPath /\ prefix = argPrefix /\ route = NoRoute /\ lst = "none")
    /\ markerRead' # markerRead =>
          (directory' = directory /\ directory # <<>> /\ route = NoRoute /\ lst = "none")
    /\ prefix' # prefix => (directory' = directory /\ route = NoRoute /\ lst = "none")
    /\ route' # route =>
          /\ stat(zip, directory) = "dir"
          /\ prefix = normalizePrefix(rawPrefix)
          /\ route' = prefix /\ lst = "none"
    /\ (lst = "none" /\ lst' # "none") => (route # NoRoute /\ route = prefix)

\* the run ended at the directory check, for an explicit directory and no
\* explicit prefix
InvalidDirExit ==
    /\ Exited /\ exitCode = 1 /\ ~zipOpenErr
    /\ argDirectory # <<>> /\ stat(zip, argDirectory) # "dir"
    /\ argPrefix = <<>>

\* C16 as stated: the directory is fixed first, then the marker is read and the
\* prefix normalised, then the directory is validated, then the route is
\* registered and the listener created; with an invalid explicit directory and
\* no explicit prefix the marker read is attempted and gives the empty raw
\* prefix before the fatal check.
C16_ResolutionOrder ==
    /\ [][OrderedSteps]_vars
    /\ [](InvalidDirExit =>
            /\ markerRead = Join(argDirectory, prefixFileName)
            /\ rawPrefix = <<>>
            /\ route = NoRoute /\ lst = "none")

\* C16 amended: the same order; with an invalid explicit directory and no
\* explicit prefix the marker read is attempted before the fatal check, and the
\* raw prefix is empty unless the cleaned path directory/.prefix is a file of
\* the archive.
C16_ResolutionOrderCleaned ==
    /\ [][OrderedSteps]_vars
    /\ [](InvalidDirExit =>
            /\ markerRead = Join(argDirectory, prefixFileName)
            /\ stat(zip, markerRead) # "file" => rawPrefix = <<>>
            /\ prefix = normalizePrefix(rawPrefix)
            /\ route = NoRoute /\ lst = "none")

\* --directory -d names no directory: the marker -d/.prefix was tried, then the run failed
C16_Witness ==
    /\ InvalidDirExit
    /\ markerRead = <<"-d", Slash, prefixFileName>>
    /\ rawPrefix = <<>> /\ prefix = <<Slash>>

\* the controller is past the select
PastWait == pc \in {"shutdown", "shutdownWait", "deferred", "returned", "fatalErr"}

\* C17: the controller leaves the blocking wait only for a signal delivered to
\* the process or for an error sent by the listener, and every run that is past
\* the wait, shutting down or stopped after the listener was started, had one of
\* the two events before.
C17_WaitEndsOnEventOnly ==
    /\ [][(Waiting /\ ~Waiting') =>
            \/ pc' = "shutdown" /\ waitCause' = "signal" /\ sigCount' > 0
            \/ pc' = "fatalErr" /\ waitCause' = "error" /\ sent' > 0]_vars
    /\ [](/\ PastWait => waitCause \in {"signal", "error"}
          /\ (PastWait \/ shutdownState # "none" \/ (Exited /\ lst # "none")) =>
                (sigCount > 0 \/ sent > 0)
          /\ waitCause = "signal" => sigCount > 0
          /\ waitCause = "error" => sent > 0)

\* a parked controller was woken by the first signal and goes on to the shutdown
C17_Witness ==
    /\ pc = "shutdown" /\ waitCause = "signal" /\ sigCount = 1 /\ done = 0
    /\ lst = "serving" /\ sent = 0

----------------------------------------------------------------------------
(* The directory found by the marker search, under SpecResolve *)

\* C18: without an explicit directory, the directory that the marker search
\* yields is a directory of the archive, whether the marker is at the root, is
\* nested, is missing or is itself a directory; such a run never ends at the
\* directory check, only at a failing walk.
C18_AutoDirectoryValid ==
    /\ WalkDone => (ValidPath(directory) /\ stat(zip, directory) = "dir")
    /\ (Exited /\ argDirectory = <<>>) => WalkFails

\* the walk stopped at an entry named .prefix that is a directory, and the
\* directory check has passed for its parent
C18_Witness ==
    /\ WalkDone /\ pc = "sub"
    /\ stat(zip, walked[Len(walked)]) = "dir"
    /\ Base(walked[Len(walked)]) = prefixFileName
    /\ directory = ParentOf(walked[Len(walked)])

----------------------------------------------------------------------------
(* The select with both channels ready, under Spec *)

\* C19 as stated: when the controller evaluates the select with a listener
\* error and a signal both pending, it takes the listener error and goes to the
\* fatal exit, never to the graceful shutdown.
C19_FailureBeatsInterrupt ==
    [][(pc = "select" /\ done > 0 /\ serverErr > 0 /\ pc' # pc) =>
          (pc' = "fatalErr" /\ waitCause' = "error")]_vars

====
